---- MODULE Spec2Model ----
(***************************************************************************)
(* django-view-perms: the create_view_perms management command (the        *)
(* permission synchronizer and its view enumerator) and the                *)
(* ViewPermissionMiddleware, over a shared Permission table.               *)
(*                                                                         *)
(* Strings are sequences of one-character strings, so that startswith,     *)
(* concatenation and equality are computed and not assumed.  The default   *)
(* prefix 'access_view_' is abbreviated to "a_".                           *)
(***************************************************************************)
EXTENDS Naturals, Sequences, FiniteSets, TLC

VARIABLES
    store,              \* the Permission table: a set of rows
    urlconf,            \* index of the project's ROOT_URLCONF tree
    ignore_list,        \* settings.VIEW_PERMS_IGNORE_LIST, or unset
    optimize,           \* the interpreter runs with -O (no assert statements)
    perm_prefix_opt,    \* the --perm-prefix the command is run with
    language_opt,       \* the --language the command is run with (default LANGUAGE_CODE)
    content_type_ok,    \* ContentType.objects.get_for_model(get_user_model()) succeeds
    auth_middleware,    \* django auth middleware runs before this one (request.user is set)
    view_perms_prefix,  \* settings.VIEW_PERMS_PREFIX, or unset
    user_app_label,     \* app label of get_user_model()
    last,               \* the last operation: its arguments, the table before it, its outcome
    runs                \* number of command runs so far

vars == <<store, urlconf, ignore_list, optimize, perm_prefix_opt, language_opt, content_type_ok,
          auth_middleware, view_perms_prefix, user_app_label, last, runs>>

\* Bound on the number of command runs of a behaviour.
MaxRuns == 2
\* Bound on the number of permissions granted to a request's user.
MaxHeld == 1

---------------------------------------------------------------------------
(* Strings *)

Dot == <<".">>

StartsWith(s, p) == Len(p) <= Len(s) /\ SubSeq(s, 1, Len(p)) = p

\* '{}.{}'.format(a, b) and '.'.join([a, b])
Dotted(a, b) == a \o Dot \o b

\* default of --perm-prefix and of getattr(settings, 'VIEW_PERMS_PREFIX', ...)
DefaultPrefix == <<"a", "_">>
CustomPrefix == <<"x", "_">>

\* a setting the project's settings module defines, and one it does not
Set(v) == [is_set |-> TRUE, value |-> v]
UnsetList == [is_set |-> FALSE, value |-> {}]
UnsetString == [is_set |-> FALSE, value |-> <<>>]

---------------------------------------------------------------------------
(* View callables.  A callable has __module__ and __name__; it may carry  *)
(* view_class (set by as_view()), view_func, and __name_trans__.           *)

Callable(m, n) ==
    [module |-> m, name |-> n,
     has_view_class |-> FALSE, class_module |-> <<>>, class_name |-> <<>>,
     has_view_func |-> FALSE, view_func |-> "none",
     has_name_trans |-> FALSE, name_trans |-> <<>>]

ClassBased(m, n, cm, cn) ==
    [Callable(m, n) EXCEPT !.has_view_class = TRUE, !.class_module = cm, !.class_name = cn]

ModB == <<"b", ".", "v">>
ModBl == <<"b", "l", ".", "v">>
ModC == <<"c", ".", "v">>

ViewIds == {"f", "C1", "C2", "W", "g", "h", "k"}

\* f:  function view b.v.f, with a translated name
\* C1, C2: two results of C.as_view() (as_view copies the class's __module__ and
\*     __name__ onto the callable it returns)
\* W:  a callable carrying view_class b.v.D whose own __name__ is "w"
\* g:  function view bl.v.g (application "bl", whose name starts with "b")
\* h:  function view c.v.h
\* k:  a callable b.v.k that carries view_func = f
ViewObj ==
    [id \in ViewIds |->
        CASE id = "f" -> [Callable(ModB, <<"f">>) EXCEPT !.has_name_trans = TRUE, !.name_trans = <<"F">>]
          [] id = "C1" -> ClassBased(ModB, <<"C">>, ModB, <<"C">>)
          [] id = "C2" -> ClassBased(ModB, <<"C">>, ModB, <<"C">>)
          [] id = "W" -> ClassBased(ModB, <<"w">>, ModB, <<"D">>)
          [] id = "g" -> Callable(ModBl, <<"g">>)
          [] id = "h" -> Callable(ModC, <<"h">>)
          [] id = "k" -> [Callable(ModB, <<"k">>) EXCEPT !.has_view_func = TRUE, !.view_func = "f"]]

\* get_view_name(view_func)
get_view_name(v) ==
    IF ViewObj[v].has_view_class
    THEN Dotted(ViewObj[v].class_module, ViewObj[v].class_name)
    ELSE Dotted(ViewObj[v].module, ViewObj[v].name)

---------------------------------------------------------------------------
(* URL pattern trees.  urlpatterns and resolver.url_patterns are lists.   *)

List(items) == [kind |-> "list", callback |-> "none", items |-> items]
Pattern(cb) == [kind |-> "pattern", callback |-> cb, items |-> <<>>]
Resolver(items) == [kind |-> "resolver", callback |-> "none", items |-> items]

\* isinstance(x, (RegexURLPattern, RegexURLResolver))
IsPatternOrResolver(x) == x.kind \in {"pattern", "resolver"}

Urlconfs ==
    << List(<< Pattern("f"),
               Resolver(<< Pattern("W"), Pattern("f"),
                           Resolver(<< Pattern("g"), Pattern("none") >>) >>),
               Pattern("h") >>),
       List(<< Pattern("C1"), Pattern("C2"),
               Resolver(<< Resolver(<< Pattern("k") >>) >>) >>) >>

AssertionError == [raised |-> TRUE, views |-> {}]

\* view_funcs.extend(...) / view_funcs.append(...); a failed assertion in a nested
\* call propagates
Extend(a, b) ==
    IF a.raised \/ b.raised THEN AssertionError
    ELSE [raised |-> FALSE, views |-> a.views \cup b.views]

RECURSIVE get_all_views(_, _)
RECURSIVE WalkPatterns(_, _, _)

\* the loop of get_all_views over items[i..]
WalkPatterns(items, i, opt) ==
    IF i > Len(items) THEN [raised |-> FALSE, views |-> {}]
    ELSE Extend(IF items[i].kind = "resolver"
                THEN get_all_views(List(items[i].items), opt)
                ELSE IF items[i].kind = "pattern" /\ items[i].callback # "none"
                     THEN [raised |-> FALSE, views |-> {items[i].callback}]
                     ELSE [raised |-> FALSE, views |-> {}],
                WalkPatterns(items, i + 1, opt))

\* get_all_views(urlpatterns); opt is python -O (assert statements compiled out)
get_all_views(urlpatterns, opt) ==
    IF ~opt /\ ~IsPatternOrResolver(urlpatterns)
    THEN AssertionError
    ELSE WalkPatterns(urlpatterns.items, 1, opt)

\* every callable bound to a pattern anywhere in the tree
RECURSIVE Reachable(_)
Reachable(node) ==
    (IF node.kind = "pattern" /\ node.callback # "none" THEN {node.callback} ELSE {})
    \cup UNION {Reachable(node.items[i]) : i \in DOMAIN node.items}

---------------------------------------------------------------------------
(* The Permission table.  A row is [id, ct, codename, name]; ct is the    *)
(* content type, name the display name (the language it was rendered in    *)
(* and the view name substituted into "Can access view %(view_name)s").    *)

UserCT == "user"
OtherCT == "other"

Row(id, ct, codename, name) == [id |-> id, ct |-> ct, codename |-> codename, name |-> name]

Languages == {"en", "fa"}

\* ugettext_lazy("Can access view %(view_name)s") % {'view_name': t}, rendered
\* in the active language
PermName(language, t) == [language |-> language, view_name |-> t]

\* primary key of a new row
NewId(S) == CHOOSE n \in 1..(Cardinality(S) + 1) : \A r \in S : r.id # n

\* Permission.objects.filter(content_type=ct, codename__startswith=p)
FilterStartsWith(S, ct, p) == {r \in S : r.ct = ct /\ StartsWith(r.codename, p)}

\* the rows matched by Permission.objects.get(content_type=ct, codename=c)
GetByCtCodename(S, ct, c) == {r \in S : r.ct = ct /\ r.codename = c}

\* the rows matched by Permission.objects.get(codename=c)
GetByCodename(S, c) == {r \in S : r.codename = c}

\* '{}{}.'.format(perm_prefix, app_config.name)
AppCodenamePrefix(perm_prefix, app) == perm_prefix \o app \o Dot

\* '{}{}'.format(perm_prefix, view_name)
PermCodename(perm_prefix, view_name) == perm_prefix \o view_name

\* getattr(settings, 'VIEW_PERMS_IGNORE_LIST', [])
IgnoreList(setting) == IF setting.is_set THEN setting.value ELSE {}

\* getattr(settings, 'VIEW_PERMS_PREFIX', 'access_view_')
PrefixSetting(setting) == IF setting.is_set THEN setting.value ELSE DefaultPrefix

---------------------------------------------------------------------------
(* create_view_perms: Command.handle_app_config *)

Apps == {<<"b">>, <<"b", "l">>}
Verbosities == 0..2

\* the orders list(set(view_funcs)) can produce
Orders(S) ==
    {s \in [1..Cardinality(S) -> S] : \A i, j \in 1..Cardinality(S) : s[i] = s[j] => i = j}

\* lines 157-161: the enumerated views whose name starts with app_config.name
AppViews(all_views, app) == {v \in all_views : StartsWith(get_view_name(v), app)}

\* lines 258-263
ViewNameTrans(v) ==
    IF ViewObj[v].has_name_trans THEN ViewObj[v].name_trans ELSE get_view_name(v)

\* lines 177-188: --delete-perms
DeletePerms(S, perm_prefix, app) ==
    LET perms == FilterStartsWith(S, UserCT, AppCodenamePrefix(perm_prefix, app))
    IN [store |-> S \ perms, status |-> "ok", report_kind |-> "deleted",
        report_n |-> Cardinality(perms), created |-> {}]

\* lines 192-225: --prune-stale
PruneStale(S, perm_prefix, app, app_views) ==
    LET perms == FilterStartsWith(S, UserCT, AppCodenamePrefix(perm_prefix, app))
        app_view_names == {PermCodename(perm_prefix, get_view_name(v)) : v \in app_views}
        stale == {perm \in perms : perm.codename \notin app_view_names}
    IN [store |-> S \ stale, status |-> "ok", report_kind |-> "deleted",
        report_n |-> Cardinality(stale), created |-> {}]

\* Permission.objects.get(codename=perm_codename).delete(), found being the rows
\* the get matches; MultipleObjectsReturned is not caught
DeleteFound(acc, found) ==
    CASE Cardinality(found) = 0 -> acc
      [] Cardinality(found) = 1 -> [acc EXCEPT !.store = acc.store \ found]
      [] OTHER -> [acc EXCEPT !.status = "MultipleObjectsReturned"]

\* lines 238-253: a view in the ignore list
IgnoreView(acc, perm_codename, verbosity) ==
    IF verbosity >= 1
    THEN DeleteFound(acc, GetByCodename(acc.store, perm_codename))
    ELSE acc

\* SaveFound without the lookup: the row is created whether or not one exists
SaveFound_always_create(acc, v, perm_codename, perm_name, found) ==
    [acc EXCEPT !.store = acc.store \cup
                          {Row(NewId(acc.store), UserCT, perm_codename, perm_name)},
                !.count = acc.count + 1,
                !.created = acc.created \cup {v}]

\* lines 269-299: found being the rows Permission.objects.get(content_type=...,
\* codename=...) matches, update the row's name or create the row
SaveFound(acc, v, perm_codename, perm_name, found) ==
    CASE Cardinality(found) = 1 ->
           [acc EXCEPT !.store = (acc.store \ found)
                                 \cup {[perm EXCEPT !.name = perm_name] : perm \in found}]
      [] Cardinality(found) = 0 ->
           [acc EXCEPT !.store = acc.store \cup
                                 {Row(NewId(acc.store), UserCT, perm_codename, perm_name)},
                       !.count = acc.count + 1,
                       !.created = acc.created \cup {v}]
      [] OTHER -> [acc EXCEPT !.status = "CommandError"]

\* lines 258-299
UpdateOrCreate(acc, v, perm_codename, language) ==
    SaveFound(acc, v, perm_codename, PermName(language, ViewNameTrans(v)),
              GetByCtCodename(acc.store, UserCT, perm_codename))

\* lines 233-299: the body of the loop for one view
CreateStep(acc, view_func, view_name, perm_prefix, verbosity, language, ignore) ==
    IF view_name \in IgnoreList(ignore)
    THEN IgnoreView(acc, PermCodename(perm_prefix, view_name), verbosity)
    ELSE UpdateOrCreate(acc, view_func, PermCodename(perm_prefix, view_name), language)

\* lines 232-299: the loop over app_views, from position i; an exception ends it
RECURSIVE CreateLoop(_, _, _, _, _, _, _)
CreateLoop(app_views, i, acc, perm_prefix, verbosity, language, ignore) ==
    IF i > Len(app_views) \/ acc.status # "ok" THEN acc
    ELSE CreateLoop(app_views, i + 1,
                    CreateStep(acc, app_views[i], get_view_name(app_views[i]),
                               perm_prefix, verbosity, language, ignore),
                    perm_prefix, verbosity, language, ignore)

\* the outcome of the loop, and line 302
Completed(acc) ==
    [store |-> acc.store, status |-> acc.status,
     report_kind |-> IF acc.status = "ok" THEN "created" ELSE "none",
     report_n |-> IF acc.status = "ok" THEN acc.count ELSE 0,
     created |-> acc.created]

\* lines 229-303: create/update
CreateUpdate(S, app_views, perm_prefix, verbosity, language, ignore) ==
    Completed(CreateLoop(app_views, 1,
                         [store |-> S, count |-> 0, status |-> "ok", created |-> {}],
                         perm_prefix, verbosity, language, ignore))

Raised(S, status) ==
    [store |-> S, status |-> status, report_kind |-> "none", report_n |-> 0, created |-> {}]

\* handle_app_config(app_config, **options); enum is get_all_views(all_urlpatterns),
\* app_views the list of lines 157-161, ct_ok whether the user content type is found
handle_app_config(S, enum, app_views, ct_ok, app, perm_prefix, verbosity, language, delete_perms, prune_stale, ignore) ==
    IF enum.raised THEN Raised(S, "AssertionError")
    ELSE IF ~ct_ok THEN Raised(S, "CommandError")
    ELSE IF delete_perms THEN DeletePerms(S, perm_prefix, app)
    ELSE IF prune_stale
         THEN PruneStale(S, perm_prefix, app, {app_views[i] : i \in DOMAIN app_views})
    ELSE CreateUpdate(S, app_views, perm_prefix, verbosity, language, ignore)

---------------------------------------------------------------------------
(* check_view_perm: ViewPermissionMiddleware.process_request *)

AuthLabel == <<"a", "u", "t", "h">>
AcctLabel == <<"a", "c", "c", "t">>
OtherLabel == <<"s">>

\* content_type.app_label
AppLabel(ct, user_label) == IF ct = UserCT THEN user_label ELSE OtherLabel

\* user.has_perm(label): label is among "<app_label>.<codename>" of the rows
\* granted to the user
HasPerm(user, label, S, user_label) ==
    \E r \in S : r.id \in user.held /\ label = Dotted(AppLabel(r.ct, user_label), r.codename)

\* lines 52-54
Unwrap(view) == IF ViewObj[view].has_view_func THEN ViewObj[view].view_func ELSE view

\* lines 56-58
RequestCodename(view, prefix_setting) ==
    PermCodename(PrefixSetting(prefix_setting),
                 Dotted(ViewObj[Unwrap(view)].module, ViewObj[Unwrap(view)].name))

\* lines 78-86
Authorize(user, perm_codename, S, user_label) ==
    IF ~user.is_authenticated \/ ~HasPerm(user, Dotted(AuthLabel, perm_codename), S, user_label)
    THEN "deny"
    ELSE "allow"

\* process_request without the return of the DoesNotExist branch
process_request_enforce_missing(S, has_user, ct_ok, target, user, prefix_setting, user_label) ==
    IF ~has_user \/ ~ct_ok THEN "ImproperlyConfigured"
    ELSE IF target = "nomatch" THEN "allow"
    ELSE Authorize(user, RequestCodename(target, prefix_setting), S, user_label)

\* process_request(request): target is what resolve(path) finds ("nomatch" for
\* Resolver404); the outcome is "allow" (returns None), "deny" (PermissionDenied)
\* or "ImproperlyConfigured"
process_request(S, has_user, ct_ok, target, user, prefix_setting, user_label) ==
    IF ~has_user \/ ~ct_ok THEN "ImproperlyConfigured"
    ELSE IF target = "nomatch" THEN "allow"
    ELSE LET perm_codename == RequestCodename(target, prefix_setting)
             found == GetByCtCodename(S, UserCT, perm_codename)
         IN IF Cardinality(found) = 0 THEN "allow"
            ELSE Authorize(user, perm_codename, S, user_label)

---------------------------------------------------------------------------
(* State machine *)

NameF == <<"b", ".", "v", ".", "f">>

\* tables left by earlier deployments and by administrators
InitStores ==
    { {},
      { Row(1, UserCT, DefaultPrefix \o NameF, PermName("fa", <<"F">>)),
        Row(2, UserCT, DefaultPrefix \o Dotted(ModB, <<"z">>), PermName("en", Dotted(ModB, <<"z">>))),
        Row(3, UserCT, DefaultPrefix \o Dotted(ModBl, <<"y">>), PermName("en", Dotted(ModBl, <<"y">>))),
        Row(4, UserCT, CustomPrefix \o Dotted(ModB, <<"C">>), PermName("en", Dotted(ModB, <<"C">>))) },
      { Row(1, UserCT, DefaultPrefix \o NameF, PermName("en", <<"F">>)),
        Row(2, UserCT, DefaultPrefix \o NameF, PermName("en", <<"F">>)) },
      { Row(1, OtherCT, DefaultPrefix \o NameF, PermName("en", <<"F">>)),
        Row(2, UserCT, DefaultPrefix \o Dotted(ModC, <<"h">>), PermName("en", Dotted(ModC, <<"h">>))) },
      { Row(1, UserCT, DefaultPrefix \o Dotted(ModB, <<"w">>), PermName("en", Dotted(ModB, <<"w">>))),
        Row(2, UserCT, DefaultPrefix \o Dotted(ModB, <<"C">>), PermName("en", Dotted(ModB, <<"C">>))),
        Row(3, OtherCT, CustomPrefix \o NameF, PermName("en", <<"F">>)),
        Row(4, UserCT, CustomPrefix \o NameF, PermName("en", <<"F">>)) } }

Init ==
    /\ store \in InitStores
    /\ urlconf \in DOMAIN Urlconfs
    /\ ignore_list = UnsetList
    /\ optimize = TRUE
    /\ perm_prefix_opt \in {DefaultPrefix, CustomPrefix}
    /\ language_opt = "en"
    /\ content_type_ok = TRUE
    /\ auth_middleware = TRUE
    /\ view_perms_prefix \in {UnsetString, Set(CustomPrefix)}
    /\ user_app_label = AuthLabel
    /\ last = [op |-> "none"]
    /\ runs = 0

\* the deployments the command is studied in: any ignore list, with and without -O
InitCommand ==
    /\ store \in InitStores
    /\ urlconf \in DOMAIN Urlconfs
    /\ ignore_list \in {UnsetList, Set({NameF})}
    /\ optimize \in BOOLEAN
    /\ perm_prefix_opt \in {DefaultPrefix, CustomPrefix}
    /\ language_opt \in Languages
    /\ content_type_ok \in BOOLEAN
    /\ auth_middleware = TRUE
    /\ view_perms_prefix = UnsetString
    /\ user_app_label = AuthLabel
    /\ last = [op |-> "none"]
    /\ runs = 0

\* the deployments the middleware is studied in: any prefix setting and user model
InitMiddleware ==
    /\ store \in InitStores
    /\ urlconf \in DOMAIN Urlconfs
    /\ ignore_list = UnsetList
    /\ optimize = TRUE
    /\ perm_prefix_opt = DefaultPrefix
    /\ language_opt = "en"
    /\ content_type_ok \in BOOLEAN
    /\ auth_middleware \in BOOLEAN
    /\ view_perms_prefix \in {UnsetString, Set(CustomPrefix)}
    /\ user_app_label \in {AuthLabel, AcctLabel}
    /\ last = [op |-> "none"]
    /\ runs = 0

Config == <<urlconf, ignore_list, optimize, perm_prefix_opt, language_opt, content_type_ok,
            auth_middleware, view_perms_prefix, user_app_label>>

IsCreateRun(l) == l.op = "run" /\ ~l.delete_perms /\ ~l.prune_stale

\* the outcome res of a run recorded, with the run's arguments
Ran(res, all_views, app, verbosity, delete_perms, prune_stale) ==
    /\ store' = res.store
    /\ last' = [op |-> "run", app |-> app, verbosity |-> verbosity,
                delete_perms |-> delete_perms, prune_stale |-> prune_stale,
                all_views |-> all_views, pre |-> store,
                status |-> res.status, report_kind |-> res.report_kind,
                report_n |-> res.report_n, created |-> res.created,
                \* this run repeats the completed create/update run before it
                repeats |-> /\ ~delete_perms /\ ~prune_stale
                            /\ IsCreateRun(last) /\ last.status = "ok"
                            /\ last.app = app,
                same_verbosity |-> IsCreateRun(last) /\ last.verbosity = verbosity]

\* the runs possible once get_all_views(all_urlpatterns) has returned or raised enum
RunWith(enum) ==
    \E app \in Apps, verbosity \in Verbosities,
       delete_perms \in BOOLEAN, prune_stale \in BOOLEAN :
      \E app_views \in (IF delete_perms \/ prune_stale
                        THEN {CHOOSE o \in Orders(AppViews(enum.views, app)) : TRUE}
                        ELSE Orders(AppViews(enum.views, app))) :
         Ran(handle_app_config(store, enum, app_views, content_type_ok, app,
                               perm_prefix_opt, verbosity, language_opt,
                               delete_perms, prune_stale, ignore_list),
             enum.views, app, verbosity, delete_perms, prune_stale)

\* one run of `manage.py create_view_perms <app> [options]`; the order of
\* list(set(view_funcs)) is arbitrary, and only the create/update loop depends on it
RunCommand ==
    /\ runs < MaxRuns
    /\ RunWith(get_all_views(Urlconfs[urlconf], optimize))
    /\ runs' = runs + 1
    /\ UNCHANGED Config

Users(S) ==
    {[is_authenticated |-> FALSE, held |-> {}]}
    \cup {[is_authenticated |-> TRUE, held |-> h] :
            h \in {x \in SUBSET {r.id : r \in S} : Cardinality(x) <= MaxHeld}}

\* one request through the middleware
Request ==
    /\ \E target \in {"nomatch"} \cup Reachable(Urlconfs[urlconf]), user \in Users(store) :
         last' = [op |-> "request", target |-> target, user |-> user,
                  outcome |-> process_request(store, auth_middleware, content_type_ok, target, user,
                                              view_perms_prefix, user_app_label),
                  \* the run before this request created the row of the target
                  \* view, with --perm-prefix equal to VIEW_PERMS_PREFIX
                  synced |-> /\ IsCreateRun(last) /\ last.status = "ok"
                             /\ perm_prefix_opt = PrefixSetting(view_perms_prefix)
                             /\ target \in last.created]
    /\ UNCHANGED <<store, runs, Config>>

Next == RunCommand \/ Request

Spec == Init /\ [][Next]_vars

NextCommand == RunCommand

SpecCommand == InitCommand /\ [][NextCommand]_vars

NextMiddleware == Request

SpecMiddleware == InitMiddleware /\ [][NextMiddleware]_vars

---------------------------------------------------------------------------
(* Vocabulary of the properties *)

\* the view identity of the data model: the class's module and name for a
\* class-based handler, the callable's module and name otherwise
Identity(v) ==
    IF ViewObj[v].has_view_class
    THEN ViewObj[v].class_module \o <<".">> \o ViewObj[v].class_name
    ELSE ViewObj[v].module \o <<".">> \o ViewObj[v].name

\* the callables routable in the deployment's URL tree
Routable == Reachable(Urlconfs[urlconf])

\* the rows of table S under the user-model content type with codename c
Records(S, c) == {r \in S : r.ct = UserCT /\ r.codename = c}

\* the last operation is a request that got past the configuration checks and
\* whose path resolved to a view
ResolvedRequest ==
    /\ last.op = "request"
    /\ auth_middleware /\ content_type_ok
    /\ last.target # "nomatch"

\* the rows the middleware's lookup for that request matches
LookedUp == Records(store, RequestCodename(last.target, view_perms_prefix))

\* the principal of the request was granted one of the rows looked up
Holds == \E r \in LookedUp : r.id \in last.user.held

\* the last operation is a run of the command in the given mode that found the
\* user content type
CreateRun == last.op = "run" /\ content_type_ok /\ ~last.delete_perms /\ ~last.prune_stale
PruneRun == last.op = "run" /\ content_type_ok /\ ~last.delete_perms /\ last.prune_stale
DeleteRun == last.op = "run" /\ content_type_ok /\ last.delete_perms

\* the routable views in scope of the run's application
InScope == {v \in Routable : StartsWith(Identity(v), last.app)}

NoDuplicateCodenames(S) == \A r1, r2 \in S : r1.codename = r2.codename => r1 = r2

Keys(S) == {<<r.ct, r.codename>> : r \in S}

---------------------------------------------------------------------------
(* Middleware *)

\* C1: when the path resolves to a view and exactly one row with the codename
\* looked up exists under the user-model content type, the request is allowed
\* if and only if the principal is authenticated and holds that permission.
C1_DenyUnlessHolder ==
    (ResolvedRequest /\ Cardinality(LookedUp) = 1)
        => /\ last.outcome \in {"allow", "deny"}
           /\ last.outcome = "allow" <=> (last.user.is_authenticated /\ Holds)

\* C2: a request is denied only if its path resolved to a view and a row with
\* the codename looked up exists under the user-model content type; when the
\* path does not resolve or no such row exists, a request that got past the
\* configuration checks is allowed, whoever the principal is.
C2_DeniedOnlyIfRecord ==
    last.op = "request"
        => /\ last.outcome = "deny" => (ResolvedRequest /\ LookedUp # {})
           /\ (auth_middleware /\ content_type_ok
                 /\ (last.target = "nomatch" \/ LookedUp = {}))
                => last.outcome = "allow"

\* C2, its cases: an authenticated and an anonymous principal allowed on a view
\* without a row, while the table holds rows of other views
C2_Witness ==
    /\ ResolvedRequest /\ LookedUp = {} /\ store # {}
    /\ ~last.user.is_authenticated
    /\ last.outcome = "allow"

\* C3: when the lookup matches more than one row, the request is allowed,
\* whoever the principal is.
C3_DuplicatesFailOpen ==
    (ResolvedRequest /\ Cardinality(LookedUp) > 1) => last.outcome = "allow"

---------------------------------------------------------------------------
(* Synchronizer *)

\* C4: after a completed create/update run on a table without duplicate
\* codenames, no row with codename
\* prefix+identity exists for any in-scope view whose identity is in the
\* ignore list, whatever the verbosity.
C4_IgnoredHaveNoRecord ==
    (CreateRun /\ last.status = "ok" /\ NoDuplicateCodenames(last.pre))
        => \A v \in InScope :
             Identity(v) \in IgnoreList(ignore_list)
               => Records(store, perm_prefix_opt \o Identity(v)) = {}

\* C5: after a completed create/update run on a table without duplicate
\* codenames, every routable view in scope of the application and not in the
\* ignore list has exactly one row with codename prefix+identity under the
\* user-model content type.
C5_OneRecordPerView ==
    (CreateRun /\ last.status = "ok" /\ NoDuplicateCodenames(last.pre))
        => \A v \in InScope :
             Identity(v) \notin IgnoreList(ignore_list)
               => Cardinality(Records(store, perm_prefix_opt \o Identity(v))) = 1

\* C5, its case: a completed run that created the row of a class-based view and
\* updated the row of another view
C5_Witness ==
    /\ CreateRun /\ last.status = "ok" /\ NoDuplicateCodenames(last.pre)
    /\ \E v \in last.created : ViewObj[v].has_view_class
    /\ \E v \in InScope \ last.created :
         /\ Identity(v) \notin IgnoreList(ignore_list)
         /\ Records(last.pre, perm_prefix_opt \o Identity(v)) # {}
         /\ Records(last.pre, perm_prefix_opt \o Identity(v))
              # Records(store, perm_prefix_opt \o Identity(v))

\* C6: a completed create/update run that repeats the completed create/update
\* run before it (same application, prefix, URL tree and ignore list) reports
\* 0 permissions created and leaves the (content type, codename) pairs of the
\* table as they were.
C6_Idempotent ==
    (CreateRun /\ last.repeats /\ last.status = "ok")
        => /\ last.report_kind = "created" /\ last.report_n = 0
           /\ Keys(store) = Keys(last.pre)
           /\ Cardinality(store) = Cardinality(last.pre)

\* the rows a prune-stale run is to remove: those of the application under the
\* prefix that are the row of no in-scope view
Stale ==
    {r \in last.pre :
        /\ r.ct = UserCT
        /\ StartsWith(r.codename, perm_prefix_opt \o last.app \o <<".">>)
        /\ \A v \in InScope : r.codename # perm_prefix_opt \o Identity(v)}

\* C7: a prune-stale run removes exactly the stale rows, leaves every other
\* row untouched and reports the number of rows removed.
C7_PruneExactlyStale ==
    PruneRun
        => /\ store = last.pre \ Stale
           /\ last.report_kind = "deleted" /\ last.report_n = Cardinality(Stale)

\* C8: a delete run removes every row under the user-model content type whose
\* codename starts with prefix + application name, with or without
\* --prune-stale, removes no other row and reports the number removed.
C8_DeleteAllOfApp ==
    DeleteRun
        => LET doomed == {r \in last.pre : r.ct = UserCT
                            /\ StartsWith(r.codename, perm_prefix_opt \o last.app)}
           IN /\ store = last.pre \ doomed
              /\ last.report_kind = "deleted" /\ last.report_n = Cardinality(doomed)

\* C9: get_all_views, given the project's urlpatterns, fails no assertion and
\* returns exactly the callables reachable from the root.
C9_EnumeratesAll ==
    last.op = "run" => (last.status # "AssertionError" /\ last.all_views = Routable)

---------------------------------------------------------------------------
(* Synchronizer and middleware *)

\* C10: for a view whose row the create/update run before the request created,
\* with --perm-prefix equal to VIEW_PERMS_PREFIX, the middleware looks up the
\* codename of that row, and an anonymous request to the view is denied.
C10_NamesAgree ==
    (ResolvedRequest /\ last.synced)
        => /\ RequestCodename(last.target, view_perms_prefix)
                = perm_prefix_opt \o Identity(last.target)
           /\ ~last.user.is_authenticated => last.outcome = "deny"

---------------------------------------------------------------------------
(* What the code does where the statements above fail *)

\* C1 holds where the user model belongs to the application labelled "auth".
C1_WithAuthUserModel == user_app_label = AuthLabel => C1_DenyUnlessHolder

\* Where the user model belongs to another application, no authenticated
\* principal is allowed on a view that has a row.
C1_CustomUserModelDeniesAll ==
    (ResolvedRequest /\ LookedUp # {} /\ user_app_label # AuthLabel
       /\ \A r \in store : r.id \in last.user.held => r.ct = UserCT)
        => last.outcome = "deny"

\* Duplicate rows are enforced like a single row.
C3_DuplicatesEnforced ==
    (ResolvedRequest /\ Cardinality(LookedUp) > 1 /\ ~last.user.is_authenticated)
        => last.outcome = "deny"

\* C4 holds of the runs with verbosity 1 or more.
C4_AtVerbosityOne == (last.op = "run" /\ last.verbosity >= 1) => C4_IgnoredHaveNoRecord

\* C6 holds when the two runs have the same verbosity.
C6_SameVerbosity == (last.op = "run" /\ last.same_verbosity) => C6_Idempotent

\* C7 holds of the runs that get past get_all_views.
C7_OnceEnumerated == (last.op = "run" /\ last.status = "ok") => C7_PruneExactlyStale

\* A delete run that gets past get_all_views removes the rows whose codename
\* starts with prefix + application name + ".".
C8_OnceEnumerated ==
    (DeleteRun /\ last.status = "ok")
        => LET doomed == {r \in last.pre : r.ct = UserCT
                            /\ StartsWith(r.codename, perm_prefix_opt \o last.app \o <<".">>)}
           IN /\ store = last.pre \ doomed
              /\ last.report_kind = "deleted" /\ last.report_n = Cardinality(doomed)

\* Without assert statements get_all_views returns the routable callables.
C9_UnderOptimize == (last.op = "run" /\ optimize) => C9_EnumeratesAll

\* C10 holds of the callables that carry no view_func attribute and whose own
\* module and name are those of their view class, if they have one.
C10_SameNamedCallables ==
    (/\ ResolvedRequest
     /\ ~ViewObj[last.target].has_view_func
     /\ Identity(last.target) = Dotted(ViewObj[last.target].module, ViewObj[last.target].name))
        => C10_NamesAgree

====
